---- MODULE Spec2Model ----
(***************************************************************************)
(* PsychoAnalyze: the HTTP handlers of server/routes.ts over the in-memory *)
(* record store (MemStorage) and the analysis requestor of                 *)
(* server/services/openai.ts.                                              *)
(*                                                                         *)
(* Numbers are fixed-point tenths (7.3 is 73, 10 is 100).  Strings are     *)
(* tuples of one-character strings so that the conversions of the code     *)
(* (Number(), toString(), JSON.stringify()) are computed, not assumed.     *)
(***************************************************************************)
EXTENDS Integers, Sequences, FiniteSets, TLC

(***************************************************************************)
(* Bounds of the model.                                                    *)
(***************************************************************************)
MaxConvs == 2
MaxAnalyses == 2
MaxTime == 1
NumSlots == 2

(***************************************************************************)
(* JavaScript values.  t is the type tag, n the numeric payload (tenths    *)
(* for numbers, 0/1 for booleans), s the characters of a string, a the     *)
(* elements of an array of strings.                                        *)
(***************************************************************************)
Undefined == [t |-> "undefined", n |-> 0, s |-> <<>>, a |-> <<>>]
Null == [t |-> "null", n |-> 0, s |-> <<>>, a |-> <<>>]
NaN == [t |-> "NaN", n |-> 0, s |-> <<>>, a |-> <<>>]
EmptyObject == [t |-> "object", n |-> 0, s |-> <<>>, a |-> <<>>]
Num(n) == [t |-> "number", n |-> n, s |-> <<>>, a |-> <<>>]
Str(s) == [t |-> "string", n |-> 0, s |-> s, a |-> <<>>]
Bool(b) == [t |-> "boolean", n |-> IF b THEN 1 ELSE 0, s |-> <<>>, a |-> <<>>]
Arr(a) == [t |-> "array", n |-> 0, s |-> <<>>, a |-> a]

DigitChars == <<"0", "1", "2", "3", "4", "5", "6", "7", "8", "9">>
IsDigit(c) == \E i \in 1..10 : DigitChars[i] = c
DigitVal(c) == (CHOOSE i \in 1..10 : DigitChars[i] = c) - 1

RECURSIVE DigitsVal(_)
DigitsVal(s) ==
    IF s = <<>> THEN 0
    ELSE 10 * DigitsVal(SubSeq(s, 1, Len(s) - 1)) + DigitVal(s[Len(s)])

AllDigits(s) == Len(s) > 0 /\ \A i \in 1..Len(s) : IsDigit(s[i])

\* An unsigned decimal literal with at most one fractional digit, in tenths;
\* NaN for anything else.
UnsignedToNumber(s) ==
    IF AllDigits(s) THEN Num(10 * DigitsVal(s))
    ELSE IF /\ Len(s) >= 3
            /\ s[Len(s) - 1] = "."
            /\ AllDigits(SubSeq(s, 1, Len(s) - 2))
            /\ IsDigit(s[Len(s)])
         THEN Num(10 * DigitsVal(SubSeq(s, 1, Len(s) - 2)) + DigitVal(s[Len(s)]))
         ELSE NaN

\* Number(string): the empty string is 0, a signed decimal literal is its
\* value, every other text is NaN.
StringToNumber(s) ==
    IF s = <<>> THEN Num(0)
    ELSE IF s[1] = "-"
         THEN LET u == UnsignedToNumber(Tail(s))
              IN IF u.t = "NaN" THEN NaN ELSE Num(0 - u.n)
         ELSE IF s[1] = "+" THEN UnsignedToNumber(Tail(s))
         ELSE UnsignedToNumber(s)

\* ToNumber, the coercion Math.min and Math.max apply to their arguments.
ToNumber(v) ==
    CASE v.t = "undefined" -> NaN
      [] v.t = "null" -> Num(0)
      [] v.t = "number" -> v
      [] v.t = "NaN" -> NaN
      [] v.t = "string" -> StringToNumber(v.s)
      [] v.t = "boolean" -> Num(10 * v.n)
      [] v.t = "array" -> IF v.a = <<>> THEN Num(0)
                          ELSE IF Len(v.a) = 1 THEN StringToNumber(v.a[1])
                          ELSE NaN
      [] OTHER -> NaN

\* ToBoolean, as applied by ||.
Truthy(v) ==
    CASE v.t = "undefined" -> FALSE
      [] v.t = "null" -> FALSE
      [] v.t = "NaN" -> FALSE
      [] v.t = "number" -> v.n # 0
      [] v.t = "string" -> v.s # <<>>
      [] v.t = "boolean" -> v.n = 1
      [] OTHER -> TRUE

\* a || b
Or(a, b) == IF Truthy(a) THEN a ELSE b

MathMin(a, b) ==
    LET x == ToNumber(a)
        y == ToNumber(b)
    IN IF x.t = "NaN" \/ y.t = "NaN" THEN NaN
       ELSE IF x.n <= y.n THEN x ELSE y

MathMax(a, b) ==
    LET x == ToNumber(a)
        y == ToNumber(b)
    IN IF x.t = "NaN" \/ y.t = "NaN" THEN NaN
       ELSE IF x.n >= y.n THEN x ELSE y

\* Math.max(0, Math.min(10, raw || 0))
SanitizeScore(raw) == MathMax(Num(0), MathMin(Num(100), Or(raw, Num(0))))

RECURSIVE NatToString(_)
NatToString(n) ==
    IF n < 10 THEN <<DigitChars[n + 1]>>
    ELSE NatToString(n \div 10) \o <<DigitChars[(n % 10) + 1]>>

\* Number.prototype.toString for a value held in tenths.
NumberToString(v) ==
    IF v.t = "NaN" THEN Str(<<"N", "a", "N">>)
    ELSE LET m == IF v.n < 0 THEN 0 - v.n ELSE v.n
             whole == NatToString(m \div 10)
             frac == IF m % 10 = 0 THEN <<>> ELSE <<".", DigitChars[(m % 10) + 1]>>
             sign == IF v.n < 0 THEN <<"-">> ELSE <<>>
         IN Str(sign \o whole \o frac)

RECURSIVE JoinQuoted(_)
JoinQuoted(a) ==
    IF a = <<>> THEN <<>>
    ELSE IF Len(a) = 1 THEN <<"\"">> \o a[1] \o <<"\"">>
    ELSE <<"\"">> \o a[1] \o <<"\"">> \o <<",">> \o JoinQuoted(Tail(a))

\* JSON.stringify of the values the handler passes to it: an array of
\* strings becomes its JSON text, undefined stays undefined.
JSONStringify(v) ==
    CASE v.t = "array" -> Str(<<"[">> \o JoinQuoted(v.a) \o <<"]">>)
      [] v.t = "string" -> Str(<<"\"">> \o v.s \o <<"\"">>)
      [] v.t = "null" -> Str(<<"n", "u", "l", "l">>)
      [] v.t = "undefined" -> Undefined
      [] OTHER -> Str(<<"{", "}">>)

(***************************************************************************)
(* Opaque text (content, labels) is held as a one-chunk string; text the   *)
(* code parses (temperature, scores) is held character by character.       *)
(***************************************************************************)
Txt(x) == Str(<<x>>)

(***************************************************************************)
(* shared/schema.ts: the insert schema of the conversations table.         *)
(* createInsertSchema gives z.string() for a notNull text column without   *)
(* default, an optional z.string() for a notNull text column with a        *)
(* default, a nullable optional z.string() for a nullable text column and  *)
(* an optional integer for the integer column; id and createdAt are        *)
(* omitted.  It fills in no default: an omitted key stays absent.          *)
(***************************************************************************)
IsString(v) == v.t = "string"
IsOptionalString(v) == v.t \in {"undefined", "string"}
IsNullishString(v) == v.t \in {"undefined", "null", "string"}
IsOptionalInteger(v) == v.t = "undefined" \/ (v.t = "number" /\ v.n % 10 = 0)

insertConversationSchema(body) ==
    /\ IsNullishString(body.title)
    /\ IsString(body.content)
    /\ IsOptionalString(body.analysisType)
    /\ IsOptionalString(body.model)
    /\ IsOptionalString(body.temperature)
    /\ IsOptionalInteger(body.maxTokens)

\* Request bodies of POST /api/conversations.
FullBody ==
    [title |-> Txt("Dinner"), content |-> Txt("A: hi B: hello"),
     analysisType |-> Txt("Relationship Dynamics"), model |-> Txt("gpt-4"),
     temperature |-> Str(<<"0", ".", "3">>), maxTokens |-> Num(10000)]
ContentOnlyBody ==
    [title |-> Undefined, content |-> Txt("A: hi B: hello"),
     analysisType |-> Undefined, model |-> Undefined,
     temperature |-> Undefined, maxTokens |-> Undefined]
EmptyContentBody == [FullBody EXCEPT !.content = Str(<<>>)]
MissingContentBody == [FullBody EXCEPT !.content = Undefined]
NullContentBody == [FullBody EXCEPT !.content = Null]
TextTokensBody == [FullBody EXCEPT !.maxTokens = Str(<<"5", "0", "0">>)]
OffEnumBody ==
    [FullBody EXCEPT !.analysisType = Txt("Astrology"),
                     !.temperature = Str(<<"h", "o", "t">>),
                     !.maxTokens = Num(70)]
Bodies ==
    {FullBody, ContentOnlyBody, EmptyContentBody, MissingContentBody,
     NullContentBody, TextTokensBody, OffEnumBody}

(***************************************************************************)
(* server/storage.ts, MemStorage.  A Map is the sequence of its values in  *)
(* insertion order; set() on a present key replaces the value in place.    *)
(***************************************************************************)
NoConversation ==
    [id |-> 0, createdAt |-> 0, title |-> Undefined, content |-> Undefined,
     analysisType |-> Undefined, model |-> Undefined,
     temperature |-> Undefined, maxTokens |-> Undefined]

NoAnalysis ==
    [id |-> 0, createdAt |-> 0, conversationId |-> 0,
     emotionalTone |-> Undefined, powerDynamics |-> Undefined,
     communicationPatterns |-> Undefined, relationshipInsights |-> Undefined,
     recommendations |-> Undefined, emotionalIntensity |-> Undefined,
     resolutionPotential |-> Undefined, communicationQuality |-> Undefined,
     powerBalance |-> Undefined, rawAnalysis |-> Undefined]

MapHas(m, id) == \E i \in 1..Len(m) : m[i].id = id

\* A lookup that ignores the key and returns the first value.
MapGetFirst(m, id, none) == IF m = <<>> THEN none ELSE m[1]

MapGet(m, id, none) ==
    IF MapHas(m, id) THEN m[CHOOSE i \in 1..Len(m) : m[i].id = id] ELSE none

\* A store that keeps only the record written last.
MapSetLatest(m, rec) == <<rec>>

MapSet(m, rec) ==
    IF MapHas(m, rec.id)
    THEN [i \in 1..Len(m) |-> IF m[i].id = rec.id THEN rec ELSE m[i]]
    ELSE Append(m, rec)

\* A search that returns the last element that satisfies the test.
FindLastByConversationId(m, cid) ==
    IF \E i \in 1..Len(m) : m[i].conversationId = cid
    THEN m[CHOOSE i \in 1..Len(m) :
               /\ m[i].conversationId = cid
               /\ \A j \in (i + 1)..Len(m) : m[j].conversationId # cid]
    ELSE NoAnalysis

\* Array.prototype.find: the first element that satisfies the test.
FindByConversationId(m, cid) ==
    IF \E i \in 1..Len(m) : m[i].conversationId = cid
    THEN m[CHOOSE i \in 1..Len(m) :
               /\ m[i].conversationId = cid
               /\ \A j \in 1..(i - 1) : m[j].conversationId # cid]
    ELSE NoAnalysis

\* Array.prototype.sort((a, b) => b.createdAt - a.createdAt): a stable sort,
\* newest first; records of equal createdAt keep their insertion order.
\* The comparator reversed (a.createdAt - b.createdAt): oldest first.
RECURSIVE InsertAsc(_, _)
InsertAsc(sorted, x) ==
    IF sorted = <<>> THEN <<x>>
    ELSE IF sorted[1].createdAt <= x.createdAt
         THEN <<sorted[1]>> \o InsertAsc(Tail(sorted), x)
         ELSE <<x>> \o sorted

RECURSIVE InsertDesc(_, _)
InsertDesc(sorted, x) ==
    IF sorted = <<>> THEN <<x>>
    ELSE IF sorted[1].createdAt >= x.createdAt
         THEN <<sorted[1]>> \o InsertDesc(Tail(sorted), x)
         ELSE <<x>> \o sorted

\* The values in insertion order, the sort left out.
Unsorted(m) == m

RECURSIVE SortDesc(_)
SortDesc(m) ==
    IF m = <<>> THEN <<>>
    ELSE InsertDesc(SortDesc(SubSeq(m, 1, Len(m) - 1)), m[Len(m)])

(***************************************************************************)
(* The remote model.  What the provider call produces is an input of the   *)
(* model: the call throws, the message content is empty, the content is    *)
(* text JSON.parse rejects, the content is the JSON text null, or the      *)
(* content is the JSON text of an object (json, as JSON.parse returns it). *)
(***************************************************************************)
BaseReply ==
    [emotionalTone |-> Txt("Tense"),
     emotionalToneDescription |-> Txt("They are tense."),
     powerDynamics |-> Txt("Balanced"),
     powerDynamicsDescription |-> Txt("Neither leads."),
     communicationPatterns |-> Txt("Defensive"),
     communicationPatternsDescription |-> Txt("Both deflect."),
     relationshipInsights |-> Txt("Repairable"),
     relationshipInsightsDescription |-> Txt("There is goodwill."),
     recommendations |-> Arr(<<<<"listen">>, <<"pause">>>>),
     emotionalIntensity |-> Num(73),
     resolutionPotential |-> Num(0),
     communicationQuality |-> Num(100),
     powerBalance |-> Num(20),
     rawAnalysis |-> Txt("Full analysis.")]

OutOfRangeReply ==
    [BaseReply EXCEPT !.emotionalIntensity = Num(-50),
                      !.resolutionPotential = Num(150),
                      !.communicationQuality = Undefined,
                      !.powerBalance = Str(<<"7">>),
                      !.recommendations = Arr(<<<<"rest">>>>)]

NonNumericReply ==
    [BaseReply EXCEPT !.emotionalIntensity = Str(<<"h", "i", "g", "h">>),
                      !.resolutionPotential = Bool(TRUE),
                      !.communicationQuality = EmptyObject,
                      !.powerBalance = Null,
                      !.recommendations = Undefined,
                      !.emotionalTone = Undefined]

Replies == {BaseReply, OutOfRangeReply, NonNumericReply}

NoOutcome == [kind |-> "none", json |-> BaseReply]
\* A Record Store operation of the request rejected (IStorage returns
\* promises; the database-backed store rejects when a query fails).
StoreFault == [kind |-> "storeFault", json |-> BaseReply]
Failure(kind) == [kind |-> kind, json |-> BaseReply]
Object(json) == [kind |-> "object", json |-> json]
Failures == {Failure(k) : k \in {"throw", "empty", "invalid", "null"}}
Outcomes == Failures \cup {Object(j) : j \in Replies}

ScoreFields ==
    {"emotionalIntensity", "resolutionPotential", "communicationQuality", "powerBalance"}

(***************************************************************************)
(* server/services/openai.ts, analyzeConversation, from the provider's     *)
(* answer on: ok is FALSE when the function throws.                        *)
(***************************************************************************)
\* The catch block swallowing the failure and returning the sanitized
\* fallback instead of rethrowing.
analyzeConversationSwallow(outcome) ==
    [ok |-> TRUE,
     result |->
       [outcome.json EXCEPT
          !.emotionalIntensity = SanitizeScore(outcome.json.emotionalIntensity),
          !.resolutionPotential = SanitizeScore(outcome.json.resolutionPotential),
          !.communicationQuality = SanitizeScore(outcome.json.communicationQuality),
          !.powerBalance = SanitizeScore(outcome.json.powerBalance)]]

analyzeConversation(outcome) ==
    IF outcome.kind # "object"
    THEN [ok |-> FALSE, result |-> BaseReply]
    ELSE [ok |-> TRUE,
          result |->
            [outcome.json EXCEPT
               !.emotionalIntensity = SanitizeScore(outcome.json.emotionalIntensity),
               !.resolutionPotential = SanitizeScore(outcome.json.resolutionPotential),
               !.communicationQuality = SanitizeScore(outcome.json.communicationQuality),
               !.powerBalance = SanitizeScore(outcome.json.powerBalance)]]

\* The credential of the OpenAI client, read from the environment when the
\* module is loaded.
OpenAIApiKey == Txt("process.env.OPENAI_API_KEY")

\* parseFloat: NaN for a value that is no text or does not start a number.
ParseFloat(v) == IF v.t = "string" /\ v.s # <<>> THEN StringToNumber(v.s) ELSE NaN

NoRequest ==
    [conversation |-> Undefined, analysisType |-> Undefined, model |-> Undefined,
     temperature |-> Undefined, maxTokens |-> Undefined]

\* routes.ts: the ConversationAnalysisRequest built from the stored record.
AnalysisRequest(conversation) ==
    [conversation |-> conversation.content,
     analysisType |-> conversation.analysisType,
     model |-> conversation.model,
     temperature |-> ParseFloat(conversation.temperature),
     maxTokens |-> conversation.maxTokens]

\* routes.ts: the InsertAnalysis handed to storage.createAnalysis.
InsertAnalysis(conversation, result) ==
    [conversationId |-> conversation.id,
     emotionalTone |-> result.emotionalTone,
     powerDynamics |-> result.powerDynamics,
     communicationPatterns |-> result.communicationPatterns,
     relationshipInsights |-> result.relationshipInsights,
     recommendations |-> JSONStringify(result.recommendations),
     emotionalIntensity |-> NumberToString(result.emotionalIntensity),
     resolutionPotential |-> NumberToString(result.resolutionPotential),
     communicationQuality |-> NumberToString(result.communicationQuality),
     powerBalance |-> NumberToString(result.powerBalance),
     rawAnalysis |-> result.rawAnalysis]

(***************************************************************************)
(* State.                                                                  *)
(*   conversations, analyses  the two Maps of MemStorage                   *)
(*   uuid      the number of identifiers randomUUID has handed out         *)
(*   now       the clock new Date() reads                                  *)
(*   areq      the analyze request of each connection while its handler    *)
(*             awaits the remote model: the conversation it loaded, the    *)
(*             request and the credential of the provider call, and the    *)
(*             number of provider calls the request has issued             *)
(*   listing   the GET /api/analyses request between its two store reads   *)
(*   resp      the latest response sent                                    *)
(*   created   the conversations POST /api/conversations has returned      *)
(***************************************************************************)
VARIABLES conversations, analyses, uuid, now, areq, listing, resp, created

vars == <<conversations, analyses, uuid, now, areq, listing, resp, created>>

Slots == 1..NumSlots
\* Identifiers a request can name: every one handed out, and one never used.
Ids == 1..(MaxConvs + MaxAnalyses + 1)

IdleSlot ==
    [pc |-> "idle", id |-> 0, conversation |-> NoConversation,
     request |-> NoRequest, apiKey |-> Undefined, calls |-> 0]

NoBody ==
    [title |-> Undefined, content |-> Undefined, analysisType |-> Undefined,
     model |-> Undefined, temperature |-> Undefined, maxTokens |-> Undefined]

\* A response: the endpoint, the :id and body of the request, what the
\* provider call or a failing store operation of the request produced, the
\* status and the JSON body (a list is the body itself, a single record a
\* list of one).
Response(op, id, input, outcome, status, body) ==
    [op |-> op, id |-> id, input |-> input, outcome |-> outcome,
     status |-> status, body |-> body]

NoResp == Response("none", 0, NoBody, NoOutcome, 0, <<>>)

Init ==
    /\ conversations = <<>>
    /\ analyses = <<>>
    /\ uuid = 0
    /\ now = 0
    /\ areq = [r \in Slots |-> IdleSlot]
    /\ listing = [pc |-> "idle", analyses |-> <<>>]
    /\ resp = NoResp
    /\ created = {}

\* The clock advances.
Tick ==
    /\ now < MaxTime
    /\ now' = now + 1
    /\ UNCHANGED <<conversations, analyses, uuid, areq, listing, resp, created>>

\* An identifier generator that returns the identifier it returned last.
randomUUIDRepeated == IF uuid = 0 THEN 1 ELSE uuid

\* randomUUID(): an identifier never handed out before.
randomUUID == uuid + 1

\* MemStorage.createConversation: the record stored for validated data.
createConversation(data) ==
    [id |-> randomUUID, createdAt |-> now, title |-> data.title,
     content |-> data.content, analysisType |-> data.analysisType,
     model |-> data.model, temperature |-> data.temperature,
     maxTokens |-> data.maxTokens]

\* createAnalysis keyed by the conversation: one analysis per conversation,
\* a second one replacing the first.
createAnalysisPerConversation(data) ==
    [id |-> data.conversationId, createdAt |-> now,
     conversationId |-> data.conversationId,
     emotionalTone |-> data.emotionalTone, powerDynamics |-> data.powerDynamics,
     communicationPatterns |-> data.communicationPatterns,
     relationshipInsights |-> data.relationshipInsights,
     recommendations |-> data.recommendations,
     emotionalIntensity |-> data.emotionalIntensity,
     resolutionPotential |-> data.resolutionPotential,
     communicationQuality |-> data.communicationQuality,
     powerBalance |-> data.powerBalance, rawAnalysis |-> data.rawAnalysis]

\* MemStorage.createAnalysis: the record stored for an InsertAnalysis.
createAnalysis(data) ==
    [id |-> randomUUID, createdAt |-> now, conversationId |-> data.conversationId,
     emotionalTone |-> data.emotionalTone, powerDynamics |-> data.powerDynamics,
     communicationPatterns |-> data.communicationPatterns,
     relationshipInsights |-> data.relationshipInsights,
     recommendations |-> data.recommendations,
     emotionalIntensity |-> data.emotionalIntensity,
     resolutionPotential |-> data.resolutionPotential,
     communicationQuality |-> data.communicationQuality,
     powerBalance |-> data.powerBalance, rawAnalysis |-> data.rawAnalysis]

\* POST /api/conversations
PostConversation(body) ==
    IF insertConversationSchema(body)
    THEN /\ Len(conversations) < MaxConvs
         /\ conversations' = MapSet(conversations, createConversation(body))
         /\ uuid' = uuid + 1
         /\ resp' = Response("createConversation", 0, body, NoOutcome, 200,
                             <<createConversation(body)>>)
         /\ created' = created \cup {createConversation(body)}
         /\ UNCHANGED <<analyses, now, areq, listing>>
    ELSE /\ resp' = Response("createConversation", 0, body, NoOutcome, 400, <<>>)
         /\ UNCHANGED <<conversations, analyses, uuid, now, areq, listing, created>>

\* MemStorage.getConversations
getConversations == SortDesc(conversations)

\* MemStorage.getAnalyses
getAnalyses == SortDesc(analyses)

\* MemStorage.getConversation
getConversation(id) == MapGet(conversations, id, NoConversation)

\* The lookup keyed by the analysis id instead of the conversation id.
getAnalysisById(conversationId) == MapGet(analyses, conversationId, NoAnalysis)

\* MemStorage.getAnalysis
getAnalysis(conversationId) == FindByConversationId(analyses, conversationId)

\* GET /api/conversations
ListConversations ==
    /\ resp' = Response("getConversations", 0, NoBody, NoOutcome, 200,
                        getConversations)
    /\ UNCHANGED <<conversations, analyses, uuid, now, areq, listing, created>>

\* GET /api/conversations/:id: the response to a request for id.
GetConversationResponse(id) ==
    IF getConversation(id) = NoConversation
    THEN Response("getConversation", id, NoBody, NoOutcome, 404, <<>>)
    ELSE Response("getConversation", id, NoBody, NoOutcome, 200,
                  <<getConversation(id)>>)

\* GET /api/conversations/:id
GetConversation(id) ==
    /\ resp' = GetConversationResponse(id)
    /\ UNCHANGED <<conversations, analyses, uuid, now, areq, listing, created>>

\* The handler without its not-found check: the remote model is called for
\* whatever getConversation returned.
AnalyzeStartUnchecked(r, id) ==
    /\ areq[r].pc = "idle"
    /\ areq' = [areq EXCEPT ![r] =
                  [pc |-> "awaiting", id |-> id,
                   conversation |-> getConversation(id),
                   request |-> AnalysisRequest(getConversation(id)),
                   apiKey |-> OpenAIApiKey, calls |-> 1]]
    /\ UNCHANGED <<conversations, analyses, uuid, now, listing, resp, created>>

\* POST /api/conversations/:id/analyze, up to the call of the remote model:
\* the conversation is loaded, a missing one is answered 404, otherwise the
\* request is built from the stored record and sent to the remote model.
AnalyzeStart(r, id) ==
    /\ areq[r].pc = "idle"
    /\ LET conversation == getConversation(id)
       IN IF conversation = NoConversation
          THEN /\ resp' = Response("analyze", id, NoBody, NoOutcome, 404, <<>>)
               /\ UNCHANGED areq
          ELSE /\ areq' = [areq EXCEPT ![r] =
                             [pc |-> "awaiting", id |-> id,
                              conversation |-> conversation,
                              request |-> AnalysisRequest(conversation),
                              apiKey |-> OpenAIApiKey, calls |-> 1]]
               /\ UNCHANGED resp
    /\ UNCHANGED <<conversations, analyses, uuid, now, listing, created>>

\* The handler rolling the conversation back when the analysis fails.
AnalyzeFinishRollback(r, outcome) ==
    /\ areq[r].pc = "awaiting"
    /\ LET res == analyzeConversation(outcome)
           analysis == createAnalysis(InsertAnalysis(areq[r].conversation, res.result))
       IN IF ~res.ok
          THEN /\ resp' = Response("analyze", areq[r].id, NoBody, outcome, 500, <<>>)
               /\ conversations' = SelectSeq(conversations,
                                             LAMBDA c : c.id # areq[r].id)
               /\ UNCHANGED <<analyses, uuid>>
          ELSE /\ Len(analyses) < MaxAnalyses
               /\ analyses' = MapSet(analyses, analysis)
               /\ uuid' = uuid + 1
               /\ resp' = Response("analyze", areq[r].id, NoBody, outcome, 200,
                                   <<[analysis |-> analysis, result |-> res.result]>>)
               /\ UNCHANGED conversations
    /\ areq' = [areq EXCEPT ![r] = IdleSlot]
    /\ UNCHANGED <<now, listing, created>>

\* An HTTP request to the analyze endpoint: the :id of the path, the
\* X-API-Key header and the JSON body.
HttpRequest(id, apiKey, body) == [id |-> id, apiKey |-> apiKey, body |-> body]

\* The handler taking the credential of the provider call from the
\* X-API-Key header and the parameters from the request body when given.
AnalyzeRequestFromCaller(r, req) ==
    /\ areq[r].pc = "idle"
    /\ LET conversation == getConversation(req.id)
           given == [conversation EXCEPT
                        !.temperature = Or(req.body.temperature, @),
                        !.maxTokens = Or(req.body.maxTokens, @)]
       IN IF conversation = NoConversation
          THEN /\ resp' = Response("analyze", req.id, NoBody, NoOutcome, 404, <<>>)
               /\ UNCHANGED areq
          ELSE /\ areq' = [areq EXCEPT ![r] =
                             [pc |-> "awaiting", id |-> req.id,
                              conversation |-> conversation,
                              request |-> AnalysisRequest(given),
                              apiKey |-> Or(req.apiKey, OpenAIApiKey),
                              calls |-> 1]]
               /\ UNCHANGED resp
    /\ UNCHANGED <<conversations, analyses, uuid, now, listing, created>>

\* POST /api/conversations/:id/analyze as it receives an HTTP request: the
\* handler reads req.params.id and nothing else of the request.
AnalyzeRequest(r, req) == AnalyzeStart(r, req.id)

\* The handler calling the remote model a second time when the first call
\* fails, instead of reporting the failure.
AnalyzeFinishRetry(r, outcome) ==
    /\ areq[r].pc = "awaiting"
    /\ LET res == analyzeConversation(outcome)
           analysis == createAnalysis(InsertAnalysis(areq[r].conversation, res.result))
       IN IF ~res.ok /\ areq[r].calls < 2
          THEN /\ areq' = [areq EXCEPT ![r].calls = @ + 1]
               /\ UNCHANGED <<analyses, uuid, resp>>
          ELSE /\ IF ~res.ok
                  THEN /\ resp' = Response("analyze", areq[r].id, NoBody, outcome,
                                           500, <<>>)
                       /\ UNCHANGED <<analyses, uuid>>
                  ELSE /\ Len(analyses) < MaxAnalyses
                       /\ analyses' = MapSet(analyses, analysis)
                       /\ uuid' = uuid + 1
                       /\ resp' = Response("analyze", areq[r].id, NoBody, outcome,
                                           200, <<[analysis |-> analysis,
                                                   result |-> res.result]>>)
               /\ areq' = [areq EXCEPT ![r] = IdleSlot]
    /\ UNCHANGED <<conversations, now, listing, created>>

\* POST /api/conversations/:id/analyze, from the provider's answer on: a
\* failure of analyzeConversation is answered 500, a result is stored with
\* createAnalysis and answered 200 with { analysis, result }.
AnalyzeFinish(r, outcome) ==
    /\ areq[r].pc = "awaiting"
    /\ LET res == analyzeConversation(outcome)
           analysis == createAnalysis(InsertAnalysis(areq[r].conversation, res.result))
       IN IF ~res.ok
          THEN /\ resp' = Response("analyze", areq[r].id, NoBody, outcome, 500, <<>>)
               /\ UNCHANGED <<analyses, uuid>>
          ELSE /\ Len(analyses) < MaxAnalyses
               /\ analyses' = MapSet(analyses, analysis)
               /\ uuid' = uuid + 1
               /\ resp' = Response("analyze", areq[r].id, NoBody, outcome, 200,
                                   <<[analysis |-> analysis, result |-> res.result]>>)
    /\ areq' = [areq EXCEPT ![r] = IdleSlot]
    /\ UNCHANGED <<conversations, now, listing, created>>

\* GET /api/conversations/:id/analysis
GetAnalysis(id) ==
    /\ resp' = IF getAnalysis(id) = NoAnalysis
               THEN Response("getAnalysis", id, NoBody, NoOutcome, 404, <<>>)
               ELSE Response("getAnalysis", id, NoBody, NoOutcome, 200,
                             <<getAnalysis(id)>>)
    /\ UNCHANGED <<conversations, analyses, uuid, now, areq, listing, created>>

\* GET /api/analyses, first read: storage.getAnalyses().
ListAnalysesStart ==
    /\ listing.pc = "idle"
    /\ listing' = [pc |-> "read", analyses |-> getAnalyses]
    /\ UNCHANGED <<conversations, analyses, uuid, now, areq, resp, created>>

\* The join taking the first conversation of the list, the id not compared.
FindConversationFirst(list, id) == IF list = <<>> THEN NoConversation ELSE list[1]

\* conversations.find(c => c.id === analysis.conversationId)
FindConversation(list, id) ==
    IF \E i \in 1..Len(list) : list[i].id = id
    THEN list[CHOOSE i \in 1..Len(list) :
                  /\ list[i].id = id
                  /\ \A j \in 1..(i - 1) : list[j].id # id]
    ELSE NoConversation

\* analyses.map(analysis => ({ ...analysis, conversation }))
JoinConversations(list, convs) ==
    [i \in 1..Len(list) |->
        [analysis |-> list[i],
         conversation |-> FindConversation(convs, list[i].conversationId)]]

\* GET /api/analyses, second read and the response.
ListAnalysesFinish ==
    /\ listing.pc = "read"
    /\ listing' = [pc |-> "idle", analyses |-> <<>>]
    /\ resp' = Response("getAnalyses", 0, NoBody, NoOutcome, 200,
                        JoinConversations(listing.analyses, getConversations))
    /\ UNCHANGED <<conversations, analyses, uuid, now, areq, created>>

(***************************************************************************)
(* client: the creation form.  Submitting runs createConversationMutation, *)
(* whose onSuccess callback receives the conversation the server returned  *)
(* and starts analyzeConversationMutation for its id; onError starts       *)
(* nothing.  created holds the conversations onSuccess was called with.    *)
(***************************************************************************)
\* onSubmit: POST /api/conversations with the form data.
ClientSubmit(body) == PostConversation(body)

\* The analyze started when the create settles, failed or not: without a
\* returned conversation the id of the path is undefined.
ClientOnSettled(r) ==
    \E conversation \in created \cup {NoConversation} :
        AnalyzeStart(r, conversation.id)

\* onSuccess(conversation): POST /api/conversations/<conversation.id>/analyze.
ClientOnSuccess(r) ==
    \E conversation \in created : AnalyzeStart(r, conversation.id)

(***************************************************************************)
(* The handlers when an operation of the Record Store rejects: the catch   *)
(* block of the handler answers.                                           *)
(***************************************************************************)
\* POST /api/conversations: the body passes validation, createConversation
\* rejects.
PostConversationStoreFault(body) ==
    /\ insertConversationSchema(body)
    /\ resp' = Response("createConversation", 0, body, StoreFault, 400, <<>>)
    /\ UNCHANGED <<conversations, analyses, uuid, now, areq, listing, created>>

\* GET /api/conversations: getConversations rejects.
ListConversationsStoreFault ==
    /\ resp' = Response("getConversations", 0, NoBody, StoreFault, 500, <<>>)
    /\ UNCHANGED <<conversations, analyses, uuid, now, areq, listing, created>>

\* GET /api/conversations/:id: getConversation rejects.
GetConversationStoreFault(id) ==
    /\ resp' = Response("getConversation", id, NoBody, StoreFault, 500, <<>>)
    /\ UNCHANGED <<conversations, analyses, uuid, now, areq, listing, created>>

\* POST /api/conversations/:id/analyze: getConversation rejects.
AnalyzeStartStoreFault(r, id) ==
    /\ areq[r].pc = "idle"
    /\ resp' = Response("analyze", id, NoBody, StoreFault, 500, <<>>)
    /\ UNCHANGED <<conversations, analyses, uuid, now, areq, listing, created>>

\* POST /api/conversations/:id/analyze: the remote model answered and
\* createAnalysis rejects.
AnalyzeFinishStoreFault(r, outcome) ==
    /\ areq[r].pc = "awaiting"
    /\ analyzeConversation(outcome).ok
    /\ resp' = Response("analyze", areq[r].id, NoBody, StoreFault, 500, <<>>)
    /\ areq' = [areq EXCEPT ![r] = IdleSlot]
    /\ UNCHANGED <<conversations, analyses, uuid, now, listing, created>>

\* GET /api/conversations/:id/analysis: getAnalysis rejects.
GetAnalysisStoreFault(id) ==
    /\ resp' = Response("getAnalysis", id, NoBody, StoreFault, 500, <<>>)
    /\ UNCHANGED <<conversations, analyses, uuid, now, areq, listing, created>>

\* GET /api/analyses: getAnalyses rejects, or getConversations after it.
ListAnalysesStoreFault ==
    /\ listing' = [pc |-> "idle", analyses |-> <<>>]
    /\ resp' = Response("getAnalyses", 0, NoBody, StoreFault, 500, <<>>)
    /\ UNCHANGED <<conversations, analyses, uuid, now, areq, created>>

(***************************************************************************)
(* Specifications.  Spec is the whole HTTP surface.  The others run the    *)
(* same handlers on the part of the surface one group of properties is     *)
(* about:                                                                  *)
(*   SpecStore    the conversation endpoints, over every request body      *)
(*   SpecScores   analyze on one connection, over every provider outcome   *)
(*   SpecAnalyze  analyze on concurrent connections, over the provider     *)
(*                failures and one well-formed answer                      *)
(*   SpecList     the listings, over records created at different instants *)
(*                by a client that analyzes the conversations it created   *)
(*   SpecSurface  every endpoint, on one connection at one instant         *)
(*   SpecCall     analyze requests that carry an X-API-Key header and a    *)
(*                body, on concurrent connections                          *)
(*   SpecFault    every endpoint over a store whose operations can reject  *)
(*   SpecClient   the requests the creation form of the client issues      *)
(*   SpecReanalyze  conversations analyzed again at the same and at later  *)
(*                instants, the analysis of the oldest conversation and    *)
(*                the list of analyses read back in between               *)
(***************************************************************************)
NextStore ==
    \/ Tick
    \/ \E body \in Bodies : PostConversation(body)
    \/ ListConversations
    \/ \E id \in Ids : GetConversation(id)

SpecStore == Init /\ [][NextStore]_vars

NextScores ==
    \/ PostConversation(ContentOnlyBody)
    \/ \E id \in Ids : AnalyzeStart(1, id)
    \/ \E outcome \in Outcomes : AnalyzeFinish(1, outcome)

SpecScores == Init /\ [][NextScores]_vars

AnalyzeBodies == {ContentOnlyBody, MissingContentBody}
AnalyzeOutcomes == Failures \cup {Object(BaseReply)}

NextAnalyze ==
    \/ \E body \in AnalyzeBodies : PostConversation(body)
    \/ \E r \in Slots, id \in Ids : AnalyzeStart(r, id)
    \/ \E r \in Slots, outcome \in AnalyzeOutcomes : AnalyzeFinish(r, outcome)

SpecAnalyze == Init /\ [][NextAnalyze]_vars

NextList ==
    \/ Tick
    \/ PostConversation(ContentOnlyBody)
    \/ \E i \in 1..Len(conversations) : AnalyzeStart(1, conversations[i].id)
    \/ AnalyzeFinish(1, Object(BaseReply))
    \/ ListConversations
    \/ ListAnalysesStart
    \/ ListAnalysesFinish

SpecList == Init /\ [][NextList]_vars

SurfaceOutcomes == {Failure("throw"), Object(BaseReply)}

\* The identifiers handed out so far, and one never handed out.
RequestIds == 1..(uuid + 1)

NextSurface ==
    \/ PostConversation(ContentOnlyBody)
    \/ ListConversations
    \/ \E id \in RequestIds : GetConversation(id)
    \/ \E id \in RequestIds : AnalyzeStart(1, id)
    \/ \E outcome \in SurfaceOutcomes : AnalyzeFinish(1, outcome)
    \/ \E id \in RequestIds : GetAnalysis(id)
    \/ ListAnalysesStart
    \/ ListAnalysesFinish

SpecSurface == Init /\ [][NextSurface]_vars

\* What a caller can put on an analyze request besides the :id.
ApiKeys == {Undefined, Txt("sk-caller")}
CallerBodies == {NoBody, OffEnumBody}

NextCall ==
    \/ PostConversation(FullBody)
    \/ \E r \in Slots, id \in RequestIds, apiKey \in ApiKeys, body \in CallerBodies :
          AnalyzeRequest(r, HttpRequest(id, apiKey, body))
    \/ \E r \in Slots, outcome \in SurfaceOutcomes : AnalyzeFinish(r, outcome)

SpecCall == Init /\ [][NextCall]_vars

NextFault ==
    \/ PostConversation(ContentOnlyBody)
    \/ PostConversationStoreFault(ContentOnlyBody)
    \/ ListConversationsStoreFault
    \/ \E id \in RequestIds : GetConversationStoreFault(id)
    \/ \E id \in RequestIds : AnalyzeStart(1, id)
    \/ \E id \in RequestIds : AnalyzeStartStoreFault(1, id)
    \/ AnalyzeFinish(1, Object(BaseReply))
    \/ AnalyzeFinishStoreFault(1, Object(BaseReply))
    \/ \E id \in RequestIds : GetAnalysisStoreFault(id)
    \/ ListAnalysesStart
    \/ ListAnalysesFinish
    \/ ListAnalysesStoreFault

SpecFault == Init /\ [][NextFault]_vars

ClientBodies == {ContentOnlyBody, MissingContentBody}

NextClient ==
    \/ \E body \in ClientBodies : ClientSubmit(body)
    \/ \E r \in Slots : ClientOnSuccess(r)
    \/ \E r \in Slots, outcome \in SurfaceOutcomes : AnalyzeFinish(r, outcome)

SpecClient == Init /\ [][NextClient]_vars

NextReanalyze ==
    \/ Tick
    \/ PostConversation(ContentOnlyBody)
    \/ \E i \in 1..Len(conversations) : AnalyzeStart(1, conversations[i].id)
    \/ AnalyzeFinish(1, Object(BaseReply))
    \/ conversations # <<>> /\ GetAnalysis(conversations[1].id)
    \/ ListAnalysesStart
    \/ ListAnalysesFinish

SpecReanalyze == Init /\ [][NextReanalyze]_vars

Next ==
    \/ Tick
    \/ \E body \in Bodies : PostConversation(body)
    \/ ListConversations
    \/ \E id \in Ids : GetConversation(id)
    \/ \E r \in Slots, id \in Ids : AnalyzeStart(r, id)
    \/ \E r \in Slots, outcome \in Outcomes : AnalyzeFinish(r, outcome)
    \/ \E id \in Ids : GetAnalysis(id)
    \/ ListAnalysesStart
    \/ ListAnalysesFinish

Spec == Init /\ [][Next]_vars

TypeOK ==
    /\ Len(conversations) <= MaxConvs
    /\ Len(analyses) <= MaxAnalyses
    /\ uuid \in 0..(MaxConvs + MaxAnalyses)
    /\ now \in 0..MaxTime

(***************************************************************************)
(* Properties.                                                             *)
(***************************************************************************)
InRange(v) == v.t = "number" /\ v.n >= 0 /\ v.n <= 100

Clamp(n) == IF n < 0 THEN 0 ELSE IF n > 100 THEN 100 ELSE n

\* Missing, or a value that is no number and no numeric text.
NonNumeric(raw) ==
    \/ raw.t \in {"undefined", "null", "boolean", "object"}
    \/ raw.t = "string" /\ raw.s # <<>> /\ StringToNumber(raw.s).t = "NaN"

AnalyzeOk == resp.op = "analyze" /\ resp.status = 200

\* C1: every score of a result analyzeConversation returns lies in [0, 10],
\* whatever raw value the provider's JSON carried for it.
C1_ScoresInRange ==
    AnalyzeOk => \A f \in ScoreFields : InRange(resp.body[1].result[f])

\* C2: a missing or non-numeric score comes back as exactly 0, a number n
\* as max(0, min(10, n)).
C2_ScoreValues ==
    AnalyzeOk =>
        \A f \in ScoreFields :
            LET raw == resp.outcome.json[f]
                out == resp.body[1].result[f]
            IN /\ raw.t = "number" => out = Num(Clamp(raw.n))
               /\ NonNumeric(raw) => out = Num(0)

NoContent(body) == body.content = Undefined \/ body.content = Str(<<>>)

\* C3: a POST /api/conversations whose content is empty or missing is
\* answered 400 and stores no conversation.
C3_EmptyContentRejected ==
    [][/\ (resp' # resp /\ resp'.op = "createConversation" /\ NoContent(resp'.input))
          => (resp'.status = 400 /\ conversations' = conversations)
       /\ conversations' # conversations
          => (resp'.op = "createConversation" /\ ~NoContent(resp'.input))]_vars

\* C4: GET /api/conversations/:id answers 200 with the stored conversation
\* exactly for the ids an earlier successful POST /api/conversations
\* returned, and 404 for every other id.
C4_GetById ==
    \A id \in Ids :
        IF \E c \in created : c.id = id
        THEN /\ GetConversationResponse(id).status = 200
             /\ GetConversationResponse(id).body[1] \in created
             /\ GetConversationResponse(id).body[1].id = id
        ELSE /\ GetConversationResponse(id).status = 404
             /\ GetConversationResponse(id).body = <<>>

C4_Witness ==
    /\ resp.op = "getConversation"
    /\ resp.status = 404
    /\ \E id \in Ids : GetConversationResponse(id).status = 200
    /\ \E id \in Ids : GetConversationResponse(id).status = 404
    /\ Len(conversations) = 2

ExactlyOnce(list, m) ==
    /\ Len(list) = Len(m)
    /\ \A i \in 1..Len(m) : Cardinality({j \in 1..Len(list) : list[j] = m[i]}) = 1

NewestFirst(list) ==
    \A i, j \in 1..Len(list) :
        list[i].createdAt < list[j].createdAt => j < i

\* C5: getConversations() and getAnalyses() return every stored record of
\* their type exactly once, a record of later createdAt before a record of
\* earlier createdAt.
C5_ListingsOrdered ==
    /\ ExactlyOnce(getConversations, conversations)
    /\ NewestFirst(getConversations)
    /\ ExactlyOnce(getAnalyses, analyses)
    /\ NewestFirst(getAnalyses)

C5_Witness ==
    /\ Len(conversations) = 2
    /\ conversations[1].createdAt < conversations[2].createdAt
    /\ Len(analyses) = 2
    /\ analyses[1].createdAt < analyses[2].createdAt
    /\ resp.op = "getAnalyses"
    /\ Len(resp.body) = 2

\* C6, as stated: right after a successful POST /api/conversations the new
\* conversation is the first element of the listing, also when an older
\* conversation has the same createdAt.
C6_NewIsFirst ==
    [][conversations' # conversations
          => getConversations'[1] = resp'.body[1]]_vars

PositionOf(list, rec) == CHOOSE i \in 1..Len(list) : list[i] = rec

\* C6, amended: right after a successful POST /api/conversations the new
\* conversation is listed ahead of every conversation of strictly earlier
\* createdAt, and is the first element when every older conversation has a
\* strictly earlier createdAt.
C6_NewAheadOfOlder ==
    [][conversations' # conversations
          => /\ resp'.op = "createConversation"
             /\ \E i \in 1..Len(getConversations') : getConversations'[i] = resp'.body[1]
             /\ \A j \in 1..Len(getConversations') :
                   getConversations'[j].createdAt < resp'.body[1].createdAt
                      => PositionOf(getConversations', resp'.body[1]) < j
             /\ (\A i \in 1..Len(conversations) :
                    conversations[i].createdAt < resp'.body[1].createdAt)
                   => getConversations'[1] = resp'.body[1]]_vars

C6_Witness ==
    /\ resp.op = "createConversation"
    /\ resp.status = 200
    /\ Len(conversations) = 2
    /\ conversations[1].createdAt < conversations[2].createdAt
    /\ getConversations[1] = resp.body[1]

\* C7: an analyze request for an id with no stored conversation is answered
\* 404, calls the remote model for no request and leaves the stored
\* analyses as they were.
C7_AnalyzeMissing ==
    [][/\ (resp' # resp /\ resp'.op = "analyze" /\ ~MapHas(conversations, resp'.id))
          => (resp'.status = 404 /\ areq' = areq /\ analyses' = analyses)
       /\ \A r \in Slots :
             (areq[r].pc = "idle" /\ areq'[r].pc = "awaiting")
                => MapHas(conversations, areq'[r].id)]_vars

C7_Witness ==
    /\ resp.op = "analyze"
    /\ resp.status = 404
    /\ conversations # <<>>
    /\ ~MapHas(conversations, resp.id)

\* C8: when the provider call throws, returns empty content or returns text
\* that is no JSON, the analyze request is answered 500 and no analysis is
\* stored; an analysis is stored only with a 200 answer to parsed JSON.
C8_ProviderFailure ==
    [][/\ (resp' # resp /\ resp'.op = "analyze"
              /\ resp'.outcome.kind \in {"throw", "empty", "invalid"})
          => (resp'.status = 500 /\ analyses' = analyses)
       /\ analyses' # analyses
          => (resp'.op = "analyze" /\ resp'.status = 200
                 /\ resp'.outcome.kind = "object")]_vars

C8_Witness ==
    /\ resp.op = "analyze"
    /\ resp.status = 500
    /\ resp.outcome.kind = "invalid"
    /\ analyses # <<>>

\* C9: every stored analysis has the conversationId of a stored
\* conversation.
C9_AnalysisHasConversation ==
    \A i \in 1..Len(analyses) : MapHas(conversations, analyses[i].conversationId)

C9_Witness ==
    /\ Len(analyses) = 2
    /\ Len(conversations) = 2
    /\ analyses[1].conversationId # analyses[2].conversationId

\* C10: an analyze request that gets valid JSON, also while another
\* analyze request for the same conversation is awaiting the remote model,
\* is answered 200 and adds one analysis of a new id for that conversation,
\* leaving the stored analyses and the other requests as they were.
C10_ConcurrentAnalyses ==
    [][\A r \in Slots :
          (/\ areq[r].pc = "awaiting"
           /\ areq'[r].pc = "idle"
           /\ resp'.outcome.kind = "object")
             => /\ resp'.status = 200
                /\ Len(analyses') = Len(analyses) + 1
                /\ SubSeq(analyses', 1, Len(analyses)) = analyses
                /\ analyses'[Len(analyses')].conversationId = areq[r].id
                /\ ~MapHas(analyses, analyses'[Len(analyses')].id)
                /\ resp'.body[1].analysis = analyses'[Len(analyses')]
                /\ \A q \in Slots \ {r} : areq'[q] = areq[q]]_vars

\* Two analyze requests for one conversation were awaiting the remote model
\* together, the latest response is the 200 of one of them, and the other
\* is still awaiting while the store holds two analyses of the conversation
\* under different ids.
C10_Witness ==
    /\ resp.op = "analyze"
    /\ resp.status = 200
    /\ \E q \in Slots : areq[q].pc = "awaiting" /\ areq[q].id = resp.id
    /\ Len(analyses) = 2
    /\ analyses[1].conversationId = resp.id
    /\ analyses[2].conversationId = resp.id
    /\ analyses[1].id # analyses[2].id
    /\ resp.body[1].analysis = analyses[2]

\* C11: an analyze request that fails with a provider error leaves the
\* conversation as it was: GET /api/conversations/:id answers 200 with the
\* same record and GET /api/conversations still lists it.
C11_FailureKeepsConversation ==
    [][\A r \in Slots :
          (/\ areq[r].pc = "awaiting"
           /\ areq'[r].pc = "idle"
           /\ resp'.status = 500)
             => /\ MapGet(conversations', areq[r].id, NoConversation)
                      = areq[r].conversation
                /\ MapGet(conversations, areq[r].id, NoConversation)
                      = areq[r].conversation
                /\ areq[r].conversation # NoConversation
                /\ \E i \in 1..Len(conversations') :
                      SortDesc(conversations')[i] = areq[r].conversation]_vars

C11_Witness ==
    /\ resp.op = "analyze"
    /\ resp.status = 500
    /\ resp.outcome.kind = "throw"
    /\ GetConversationResponse(resp.id).status = 200
    /\ \E i \in 1..Len(getConversations) : getConversations[i].id = resp.id

\* C12: a stored conversation is never changed or removed by a later
\* operation: every conversation of the store is in the store, identical,
\* after every step of every endpoint.
C12_ConversationsImmutable ==
    [][\A i \in 1..Len(conversations) :
          /\ \E j \in 1..Len(conversations') : conversations'[j] = conversations[i]
          /\ \A id \in Ids :
                conversations[i].id = id
                   => MapGet(conversations', id, NoConversation) = conversations[i]]_vars

C12_Witness ==
    /\ Len(conversations) = 2
    /\ Len(analyses) = 2
    /\ resp.op = "getAnalyses"
    /\ Len(resp.body) = 2
    /\ resp.body[1].conversation = conversations[1]

\* C13: an analyze request answered 200 adds exactly one analysis, one
\* answered 404 or 500 adds none, and no operation changes or removes a
\* stored analysis.
C13_OneAnalysisPerSuccess ==
    [][/\ (resp' # resp /\ resp'.op = "analyze")
          => IF resp'.status = 200
             THEN /\ Len(analyses') = Len(analyses) + 1
                  /\ resp'.body[1].analysis = analyses'[Len(analyses')]
             ELSE /\ resp'.status \in {404, 500}
                  /\ analyses' = analyses
       /\ analyses' # analyses => (resp'.op = "analyze" /\ resp'.status = 200)
       /\ \A i \in 1..Len(analyses) :
             Len(analyses') >= i /\ analyses'[i] = analyses[i]]_vars

C13_Witness ==
    /\ resp.op = "analyze"
    /\ resp.status = 404
    /\ Len(analyses) = 2
    /\ analyses[1].id # analyses[2].id
    /\ \A q \in Slots : areq[q].pc = "idle"

\* C20: GET /api/conversations/:id/analysis answers 404 exactly when no
\* stored analysis has conversationId = :id, and otherwise 200 with a stored
\* analysis of that conversationId.
C20_GetAnalysisByConversation ==
    [][(resp' # resp /\ resp'.op = "getAnalysis")
          => IF \E i \in 1..Len(analyses) : analyses[i].conversationId = resp'.id
             THEN /\ resp'.status = 200
                  /\ \E i \in 1..Len(analyses) : analyses[i] = resp'.body[1]
                  /\ resp'.body[1].conversationId = resp'.id
             ELSE /\ resp'.status = 404
                  /\ resp'.body = <<>>]_vars

C20_Witness ==
    /\ resp.op = "getAnalysis"
    /\ resp.status = 404
    /\ MapHas(conversations, resp.id)
    /\ analyses # <<>>

DefaultAnalysisType == Txt("General Psychological Analysis")
DefaultTemperature == Str(<<"0", ".", "7">>)
DefaultMaxTokens == Num(5000)

OmitsParameters(body) ==
    /\ body.analysisType = Undefined
    /\ body.temperature = Undefined
    /\ body.maxTokens = Undefined

HasDefaults(conversation) ==
    /\ conversation.analysisType = DefaultAnalysisType
    /\ conversation.temperature = DefaultTemperature
    /\ conversation.maxTokens = DefaultMaxTokens

\* C14: a conversation created from a body without analysisType,
\* temperature and maxTokens is stored and returned with the defaults of the
\* table ("General Psychological Analysis", "0.7", 500), and an analyze of it
\* calls the remote model with those values (every conversation of
\* SpecAnalyze is created from such a body).
C14_DefaultsApplied ==
    /\ (resp.op = "createConversation" /\ resp.status = 200
           /\ OmitsParameters(resp.input))
          => /\ HasDefaults(resp.body[1])
             /\ HasDefaults(getConversation(resp.body[1].id))
    /\ \A r \in Slots :
          areq[r].pc = "awaiting"
             => /\ areq[r].request.analysisType = DefaultAnalysisType
                /\ areq[r].request.temperature = Num(7)
                /\ areq[r].request.maxTokens = DefaultMaxTokens

AnalysisTypes ==
    {Txt("General Psychological Analysis"), Txt("Relationship Dynamics"),
     Txt("Communication Patterns"), Txt("Conflict Resolution"),
     Txt("Emotional Intelligence")}
MaxTokensValues == {Num(2500), Num(5000), Num(10000), Num(15000)}

\* A decimal text in [0.1, 1.0].
IsTemperature(v) ==
    /\ v.t = "string"
    /\ UnsignedToNumber(v.s).t = "number"
    /\ UnsignedToNumber(v.s).n >= 1
    /\ UnsignedToNumber(v.s).n <= 10

ParametersValid(conversation) ==
    /\ conversation.analysisType \in AnalysisTypes
    /\ conversation.maxTokens \in MaxTokensValues
    /\ IsTemperature(conversation.temperature)

\* A body that gives a parameter a value outside its enumeration or range.
ViolatesParameters(body) ==
    \/ body.analysisType # Undefined /\ body.analysisType \notin AnalysisTypes
    \/ body.maxTokens # Undefined /\ body.maxTokens \notin MaxTokensValues
    \/ body.temperature # Undefined /\ ~IsTemperature(body.temperature)

\* C15: every stored conversation has analysisType among the five
\* enumerated values, maxTokens in {250, 500, 1000, 1500} and temperature a
\* decimal text in [0.1, 1.0]; a POST /api/conversations whose body breaks
\* one of these is answered 400 and stores nothing.
C15_ParametersValidated ==
    [][/\ \A i \in 1..Len(conversations') : ParametersValid(conversations'[i])
       /\ (resp' # resp /\ resp'.op = "createConversation"
              /\ ViolatesParameters(resp'.input))
             => (resp'.status = 400 /\ conversations' = conversations)]_vars

C17_StoreFaultIs5xx ==
    resp.outcome.kind = "storeFault" => (resp.status >= 500 /\ resp.status <= 599)

\* The value is the sequence that the stored analysis of the same id holds
\* in serialized form.
DeserializedOf(value, id) ==
    /\ value.t = "array"
    /\ JSONStringify(value) = MapGet(analyses, id, NoAnalysis).recommendations

\* C18: GET /api/conversations/:id/analysis and GET /api/analyses return the
\* recommendations of an analysis as the sequence the provider gave, not as
\* the text it is stored as.
C18_RecommendationsRoundTrip ==
    /\ (resp.op = "getAnalysis" /\ resp.status = 200)
          => DeserializedOf(resp.body[1].recommendations, resp.body[1].id)
    /\ (resp.op = "getAnalyses" /\ resp.status = 200)
          => \A i \in 1..Len(resp.body) :
                DeserializedOf(resp.body[i].analysis.recommendations,
                               resp.body[i].analysis.id)

\* C19: GET /api/analyses returns one item per analysis it read, in the
\* order read, and that read returns every stored analysis once; the
\* conversation of an item is the stored conversation of the item's
\* conversationId when the store holds one at the second read, and is
\* undefined otherwise.
C19_AnalysesJoined ==
    [][/\ (listing.pc = "idle" /\ listing'.pc = "read")
          => ExactlyOnce(listing'.analyses, analyses)
       /\ (listing.pc = "read" /\ listing'.pc = "idle")
          => /\ resp'.status = 200
             /\ Len(resp'.body) = Len(listing.analyses)
             /\ \A i \in 1..Len(listing.analyses) :
                   /\ resp'.body[i].analysis = listing.analyses[i]
                   /\ resp'.body[i].conversation =
                         MapGet(conversations, listing.analyses[i].conversationId,
                                NoConversation)]_vars

C19_Witness ==
    /\ resp.op = "getAnalyses"
    /\ resp.status = 200
    /\ Len(resp.body) = 2
    /\ Len(analyses) = 2
    /\ resp.body[1].conversation # NoConversation
    /\ resp.body[2].conversation # NoConversation
    /\ resp.body[1].conversation # resp.body[2].conversation
    /\ resp.body[1].conversation.id = resp.body[1].analysis.conversationId

C22_ClientAnalyzesCreated ==
    [][/\ \A r \in Slots :
             (areq[r].pc = "idle" /\ areq'[r].pc = "awaiting")
                => /\ \E c \in created : c.id = areq'[r].id
                   /\ MapHas(conversations, areq'[r].id)
                   /\ areq'[r].conversation \in created
       /\ (resp' # resp /\ resp'.op = "createConversation" /\ resp'.status = 400)
             => (areq' = areq /\ created' = created)
       /\ ~(resp'.op = "analyze" /\ resp'.status = 404)]_vars

C22_Witness ==
    /\ resp.op = "createConversation"
    /\ resp.status = 400
    /\ Len(conversations) = 2
    /\ areq[1].pc = "awaiting"
    /\ areq[2].pc = "awaiting"
    /\ areq[1].id # areq[2].id

StoredIds(m) == {m[i].id : i \in 1..Len(m)}

\* The step appends one record to m, under an id no stored record has, and
\* leaves the records of m as they were.
AddsFresh(m, after) ==
    /\ Len(after) = Len(m) + 1
    /\ SubSeq(after, 1, Len(m)) = m
    /\ after[Len(after)].id \notin StoredIds(conversations) \cup StoredIds(analyses)

\* C23: every createConversation and createAnalysis call stores its record
\* under an id that no stored record has: the create overwrites nothing and
\* the number of stored records of its type grows by exactly one.
C23_FreshIds ==
    [][/\ (conversations' # conversations
              \/ (resp' # resp /\ resp'.op = "createConversation"
                     /\ resp'.status = 200))
          => (AddsFresh(conversations, conversations')
                 /\ resp'.body[1] = conversations'[Len(conversations')])
       /\ (analyses' # analyses
              \/ (resp' # resp /\ resp'.op = "analyze" /\ resp'.status = 200))
          => (AddsFresh(analyses, analyses')
                 /\ resp'.body[1].analysis = analyses'[Len(analyses')])]_vars

C23_Witness ==
    /\ resp.op = "createConversation"
    /\ resp.status = 200
    /\ Len(conversations) = 2
    /\ Len(analyses) = 2
    /\ Cardinality(StoredIds(conversations) \cup StoredIds(analyses)) = 4
    /\ conversations[2].id > analyses[2].id

IndexIn(m, rec) == CHOOSE i \in 1..Len(m) : m[i] = rec

\* The analysis of conversation cid that was stored first.
FirstCreated(cid) ==
    analyses[CHOOSE i \in 1..Len(analyses) :
                 /\ analyses[i].conversationId = cid
                 /\ \A j \in 1..Len(analyses) :
                       analyses[j].conversationId = cid => i <= j]

\* Re-analyzing never changes the analysis the store returns for a
\* conversation, and GET /api/conversations/:id/analysis returns the
\* analysis of the conversation that was stored first.
ReturnsFirstCreated ==
    /\ \A i \in 1..Len(conversations) :
          getAnalysis(conversations[i].id) # NoAnalysis
             => FindByConversationId(analyses', conversations[i].id)
                   = getAnalysis(conversations[i].id)
    /\ (resp' # resp /\ resp'.op = "getAnalysis" /\ resp'.status = 200)
          => resp'.body[1] = FirstCreated(resp'.id)

\* The items k1, k2 of a GET /api/analyses response are analyses of one
\* conversation, k1 the one stored first.
FirstAndOther(body, k1, k2) ==
    /\ k1 # k2
    /\ body[k1].analysis.conversationId = body[k2].analysis.conversationId
    /\ body[k1].analysis = FirstCreated(body[k1].analysis.conversationId)

\* C24, as stated: with several analyses of a conversation,
\* GET /api/conversations/:id/analysis always returns the one created first,
\* and GET /api/analyses lists the newest analysis of the conversation ahead
\* of it.
C24_FirstAndNewestAhead ==
    [][/\ ReturnsFirstCreated
       /\ (resp' # resp /\ resp'.op = "getAnalyses")
          => \A k1, k2 \in 1..Len(resp'.body) :
                (/\ FirstAndOther(resp'.body, k1, k2)
                 /\ \A k \in 1..Len(resp'.body) :
                       resp'.body[k].analysis.conversationId
                             = resp'.body[k1].analysis.conversationId
                          => IndexIn(analyses, resp'.body[k].analysis)
                                <= IndexIn(analyses, resp'.body[k2].analysis))
                   => k2 < k1]_vars

\* C24, amended: GET /api/conversations/:id/analysis always returns the
\* analysis created first, and GET /api/analyses lists every analysis of the
\* conversation with a strictly later createdAt ahead of it, and every one
\* with the same createdAt after it.
C24_FirstAndLaterAhead ==
    [][/\ ReturnsFirstCreated
       /\ (resp' # resp /\ resp'.op = "getAnalyses")
          => \A k1, k2 \in 1..Len(resp'.body) :
                FirstAndOther(resp'.body, k1, k2)
                   => IF resp'.body[k2].analysis.createdAt
                            > resp'.body[k1].analysis.createdAt
                      THEN k2 < k1
                      ELSE k1 < k2]_vars

C24_Witness ==
    /\ resp.op = "getAnalyses"
    /\ Len(resp.body) = 2
    /\ resp.body[1].analysis.conversationId = resp.body[2].analysis.conversationId
    /\ resp.body[1].analysis.createdAt > resp.body[2].analysis.createdAt
    /\ resp.body[2].analysis = getAnalysis(resp.body[2].analysis.conversationId)
    /\ resp.body[2].analysis = analyses[1]

\* C25: every item of every GET /api/analyses response carries the
\* conversation of its conversationId, also when conversations are created
\* and analyses stored between the two reads of the handler.
C25_ConversationPresent ==
    resp.op = "getAnalyses"
       => \A i \in 1..Len(resp.body) :
             /\ resp.body[i].conversation # NoConversation
             /\ resp.body[i].conversation.id = resp.body[i].analysis.conversationId
             /\ MapHas(conversations, resp.body[i].conversation.id)

\* A response whose reads were interleaved with an analyze request: an
\* analysis stored after the first read is missing from the response, and
\* the conversation of the item was created at an earlier instant.
C25_Witness ==
    /\ resp.op = "getAnalyses"
    /\ Len(resp.body) = 1
    /\ Len(analyses) = 2
    /\ Len(conversations) = 2
    /\ analyses[2].conversationId # analyses[1].conversationId
    /\ resp.body[1].conversation # NoConversation

====
